---- MODULE Spec2Model ----
(***************************************************************************)
(* Model of the search orchestration of Back-end/app.py: the schema cache  *)
(* (fetch_dataset_schema), the field resolver (resolve_fields), the result *)
(* cache (_cache_get / _cache_set) and the dual-dialect state machine of   *)
(* perform_search, run by concurrently served requests.                    *)
(***************************************************************************)
EXTENDS Naturals, Integers, Sequences, FiniteSets, TLC

(***************************************************************************)
(* Bounds of the model.                                                    *)
(***************************************************************************)
\* perform_search calls started in one behaviour
MaxCalls == 2
\* clock advances in one behaviour
MaxTicks == 2
\* perform_search calls started in one behaviour of two racing threads
MaxRaceCalls == 3
\* time.time() when the process starts (seconds since the epoch)
StartTime == 1000

(***************************************************************************)
(* Program constants.                                                      *)
(***************************************************************************)
RESULTS_CACHE_TTL_SECONDS == 60
_SCHEMA_TTL_SECONDS == 600
\* the amounts by which the clock is observed to advance between two steps
TickSteps == {RESULTS_CACHE_TTL_SECONDS, _SCHEMA_TTL_SECONDS - RESULTS_CACHE_TTL_SECONDS}

(***************************************************************************)
(* Field resolver.                                                         *)
(***************************************************************************)
Slots ==
    {"date", "title", "url", "cpv", "dept", "buyer", "description", "ref",
     "serviceCategory", "nature", "deadline", "buyerAddress", "budget",
     "procedure", "marketType", "place"}

FIELD_CANDIDATES ==
    [date |-> <<"dateparution", "date_publication", "datepublication", "date",
                "publication_date", "record_timestamp">>,
     title |-> <<"intitule", "objet", "titre", "title", "intitulé", "objet_du_marche">>,
     url |-> <<"url", "lien", "pageurl", "url_avis", "url_detail_avis", "avis_url",
               "link", "permalink", "permalien", "permalink_avis", "permalien_avis">>,
     cpv |-> <<"cpv", "cpvs", "code_cpv", "codes_cpv", "cpv_principal">>,
     dept |-> <<"lieu_execution_code", "code_departement", "departement", "code_dept",
                "dept", "code_insee_departement">>,
     buyer |-> <<"acheteur", "acheteur_nom", "acheteur_name", "organisme",
                 "acheteur.principal">>,
     description |-> <<"description", "objet", "objet_detail", "objetcomplet", "texte">>,
     ref |-> <<"reference", "référence", "numero", "num_avis", "identifiant", "no_avis",
               "num_annonce", "id", "recordid">>,
     serviceCategory |-> <<"categorie_services", "categorie_service", "categorie",
                           "categorie_de_services", "category_service",
                           "service_category">>,
     nature |-> <<"nature", "nature_avis", "type_avis", "type", "etat", "etat_avis">>,
     deadline |-> <<"date_limite_remise_offres", "date_limite_de_reception_des_offres",
                    "date_limite_offres", "date_reception_offres", "date_reponse",
                    "date_limite", "date_depot_offre", "deadline">>,
     buyerAddress |-> <<"nom_et_adresse_officiels_de_l_organisme_acheteur",
                        "nom_et_adresse_officiels_de_lorganisme_acheteur",
                        "acheteur_adresse", "adresse_acheteur", "organisme_adresse",
                        "acheteur_coordonnees", "coordonnees_acheteur", "adresse">>,
     budget |-> <<"montant", "montant_estime", "valeur", "budget", "amount">>,
     procedure |-> <<"procedure", "type_procedure", "mode_de_passation",
                     "procedure_type">>,
     marketType |-> <<"type_marche", "type_du_marche", "type">>,
     place |-> <<"lieu_execution", "lieu_execution_nom", "lieu_dexecution",
                 "localisation", "ville", "commune">>]

\* mutant: a slot that finds no candidate is left empty
FieldFallbacks_blank == [s \in Slots |-> ""]

\* the fallback names passed to pick by resolve_fields
FieldFallbacks ==
    [date |-> "record_timestamp", title |-> "title", url |-> "permalink",
     cpv |-> "cpv", dept |-> "departement", buyer |-> "acheteur",
     description |-> "description", ref |-> "id",
     serviceCategory |-> "categorie_services", nature |-> "nature",
     deadline |-> "date_limite_remise_offres",
     buyerAddress |-> "nom_et_adresse_officiels_de_l_organisme_acheteur",
     budget |-> "montant", procedure |-> "procedure", marketType |-> "type_marche",
     place |-> "lieu_execution"]

\* ResolvedFields(): the dataclass defaults
ResolvedFields == FieldFallbacks

\* JSON values the catalog endpoint can answer with.  An "object" carries the
\* column names of dataset.fields (a field entry without a name reads as "");
\* "empty_object" is {} ; "array" is a non-empty JSON array.
NoSchema == [kind |-> "none", names |-> <<>>]
EmptyObject == [kind |-> "empty_object", names |-> <<>>]
ArrayPayload == [kind |-> "array", names |-> <<>>]
SchemaA == [kind |-> "object", names |-> <<"objet", "dateparution", "code_departement">>]
SchemaB == [kind |-> "object", names |-> <<"date_publication", "", "titre">>]
SchemaValues == {SchemaA, EmptyObject}

\* Python truth value of a JSON value (None, {} and [] are falsy)
Truthy(v) == v.kind \in {"object", "array"}

\* names = [f.get("name", "") for f in schema.get("dataset", {}).get("fields", []) or []]
\* with any exception giving []
SchemaNames(schema) == IF schema.kind = "object" THEN schema.names ELSE <<>>

InSeq(x, s) == \E i \in 1..Len(s) : s[i] = x

\* mutant: the last candidate found in the schema wins
pick_last(candidates, fallback, names) ==
    IF \E i \in 1..Len(candidates) : InSeq(candidates[i], names)
    THEN candidates[CHOOSE i \in 1..Len(candidates) :
                        /\ InSeq(candidates[i], names)
                        /\ \A j \in (i + 1)..Len(candidates) : ~InSeq(candidates[j], names)]
    ELSE fallback

pick(candidates, fallback, names) ==
    IF \E i \in 1..Len(candidates) : InSeq(candidates[i], names)
    THEN candidates[CHOOSE i \in 1..Len(candidates) :
                        /\ InSeq(candidates[i], names)
                        /\ \A j \in 1..(i - 1) : ~InSeq(candidates[j], names)]
    ELSE fallback

resolve_fields(schema) ==
    [s \in Slots |-> pick(FIELD_CANDIDATES[s], FieldFallbacks[s], SchemaNames(schema))]

(***************************************************************************)
(* Search filters and the cache key.                                       *)
(***************************************************************************)
\* sorted() on the department codes: the order of their strings
DeptOrder == <<"75", "77", "92">>
Rank(c) == CHOOSE i \in 1..Len(DeptOrder) : DeptOrder[i] = c

RECURSIVE Insert(_, _)
Insert(x, s) ==
    IF s = <<>> THEN <<x>>
    ELSE IF Rank(x) < Rank(Head(s)) THEN <<x>> \o s
    ELSE <<Head(s)>> \o Insert(x, Tail(s))

RECURSIVE sorted(_)
sorted(s) == IF s = <<>> THEN <<>> ELSE Insert(Head(s), sorted(Tail(s)))

None == "None"

BaseFilter ==
    [q |-> "formation", cpv_prefix |-> "", dept_codes |-> <<"75", "92">>,
     buyer |-> None, date_from |-> None, date_to |-> None,
     nature_in |-> <<"AppelOffre", "Attribution">>, use_training |-> TRUE,
     page |-> 1, page_size |-> 20, sort |-> None]

\* the requests the callers make: one filter, the same with the departments in
\* another order, and the same with the natures in another order.  nature_in
\* is always a list here (request.args.getlist), so "nature_in or []" leaves it
\* as it is
Filters ==
    {BaseFilter,
     [BaseFilter EXCEPT !.dept_codes = <<"92", "75">>],
     [BaseFilter EXCEPT !.nature_in = <<"Attribution", "AppelOffre">>]}

\* json.dumps({...}, sort_keys=True): the serialisation is one-to-one on the
\* dictionary it is given, so the key is modelled as that dictionary
cache_key(f, fields) ==
    [base |-> "ODS_BASE", dataset |-> "DATASET_ID", q |-> f.q,
     cpv_prefix |-> f.cpv_prefix, dept_codes |-> sorted(f.dept_codes),
     buyer |-> f.buyer, date_from |-> f.date_from, date_to |-> f.date_to,
     use_training |-> f.use_training,
     nature_in |-> f.nature_in,
     page |-> f.page, page_size |-> f.page_size, fields |-> fields,
     sort |-> IF f.sort = None THEN "" ELSE f.sort]

(***************************************************************************)
(* The network boundary: _http_get_json.                                   *)
(***************************************************************************)
\* HTTP statuses urlopen raises HTTPError for
StatusCodes == {304, 400, 499, 500}

\* bodies of the query endpoints: a JSON object carrying the rows of the
\* dialect's envelope (results / records), or valid JSON that is no object
QueryBodies ==
    {[kind |-> "object", rows |-> "recsA"], [kind |-> "object", rows |-> "recsB"],
     [kind |-> "array", rows |-> "none"]}

NoBody == [kind |-> "none"]

Exc(t) == [type |-> t, code |-> 0, body |-> NoBody]

\* what one urlopen + read + decode + json.loads can end in.  URLError is a
\* connection failure or a timeout while connecting (urllib wraps both);
\* CertVerifyFailed is the URLError of a failed certificate verification;
\* TimeoutError is a socket timeout while waiting for or reading the response,
\* which urllib does not wrap; UnicodeDecodeError is a body that is not UTF-8
AttemptErrors ==
    {[type |-> "HTTPError", code |-> c, body |-> NoBody] : c \in StatusCodes}
    \cup {Exc("URLError"), Exc("CertVerifyFailed"), Exc("TimeoutError"),
          Exc("JSONDecodeError"), Exc("UnicodeDecodeError")}

Attempts(bodies) ==
    {[type |-> "ok", code |-> 0, body |-> b] : b \in bodies} \cup AttemptErrors

\* os.environ.get("ALLOW_INSECURE_SSL", "0") and AUTO_FALLBACK_INSECURE_SSL
allow_insecure == FALSE
AUTO_FALLBACK_INSECURE_SSL == TRUE

\* whether the except clause of _http_get_json makes the unverified retry
insecure_retry(o) ==
    (~allow_insecure) /\ AUTO_FALLBACK_INSECURE_SSL /\ o.type = "CertVerifyFailed"

\* what _http_get_json returns or raises, given the first attempt and the
\* attempt with the unverified context
_http_get_json(o1, o2) == IF insecure_retry(o1) THEN o2 ELSE o1

\* what the unverified retry after o1 can end in (o1 itself when no retry is
\* made); an unverified context does not fail certificate verification
Retries(o1, bodies) ==
    IF insecure_retry(o1)
    THEN {o \in Attempts(bodies) : o.type # "CertVerifyFailed"}
    ELSE {o1}

\* the exception classes perform_search tells apart
IsHTTPError(e) == e.type = "HTTPError"
IsURLError(e) == e.type \in {"URLError", "CertVerifyFailed", "HTTPError"}
IsJSONDecodeError(e) == e.type = "JSONDecodeError"

(***************************************************************************)
(* Result cache.                                                           *)
(***************************************************************************)
\* mutant: an entry expires at the schema cache's TTL
cache_expired_schema_ttl(t, ts) == (t - ts) > _SCHEMA_TTL_SECONDS

\* mutant: the entry expires as soon as its age reaches the TTL
cache_expired_ge(t, ts) == (t - ts) >= RESULTS_CACHE_TTL_SECONDS

\* (time.time() - entry.get("ts", 0)) > RESULTS_CACHE_TTL_SECONDS
cache_expired(t, ts) == (t - ts) > RESULTS_CACHE_TTL_SECONDS

_cache_set(cache, key, value, t) ==
    [k \in DOMAIN cache \cup {key} |->
        IF k = key THEN [value |-> value, ts |-> t] ELSE cache[k]]

\* _RESULTS_CACHE.pop(key, None)
cache_pop(cache, key) == [k \in DOMAIN cache \ {key} |-> cache[k]]

(***************************************************************************)
(* Schema cache.                                                           *)
(***************************************************************************)
\* not force_refresh and cached and (now - _SCHEMA_CACHE.get("ts", 0)) < __SCHEMA_TTL_SECONDS
schema_fresh(force_refresh, cached, t, ts) ==
    (~force_refresh) /\ Truthy(cached) /\ (t - ts) < _SCHEMA_TTL_SECONDS

(***************************************************************************)
(* Dialect executions.                                                     *)
(***************************************************************************)
\* mutant: the except clause executes the dialect that just failed again
Other_same(dialect) == dialect

Other(dialect) == IF dialect = "explore" THEN "records_v1" ELSE "explore"

\* the arguments _try_explore hands to build_explore_url
explore_args(f, fields) ==
    [api |-> "explore", keywords |-> f.q, cpv_prefix |-> f.cpv_prefix,
     dept_codes |-> f.dept_codes, buyer |-> f.buyer, nature_in |-> f.nature_in,
     sort |-> None, date_from |-> f.date_from, date_to |-> f.date_to,
     use_training |-> f.use_training, page |-> f.page, page_size |-> f.page_size,
     fields |-> fields]

\* mutant: the Records query carries the date bounds as well
records_v1_args_dated(f, fields) ==
    [api |-> "records_v1", q |-> IF f.q = "" THEN None ELSE f.q,
     dept_codes |-> f.dept_codes, buyer |-> f.buyer,
     date_from |-> f.date_from, date_to |-> f.date_to,
     use_training |-> f.use_training, page |-> f.page, page_size |-> f.page_size,
     fields |-> fields]

\* the arguments _try_records_v1 hands to build_records_v1_url
records_v1_args(f, fields) ==
    [api |-> "records_v1", q |-> IF f.q = "" THEN None ELSE f.q,
     dept_codes |-> f.dept_codes, buyer |-> f.buyer,
     use_training |-> f.use_training, page |-> f.page, page_size |-> f.page_size,
     fields |-> fields]

query_url(dialect, f, fields) ==
    IF dialect = "explore" THEN explore_args(f, fields) ELSE records_v1_args(f, fields)

\* what _try_explore / _try_records_v1 end in, given what _http_get_json ended
\* in: data.get(...) on a body that is no object raises AttributeError
try_dialect(out) ==
    IF out.type = "ok" /\ out.body.kind # "object" THEN Exc("AttributeError") ELSE out

\* mutant: the tuple always carries the Explore URL
result_tuple_explore_url(dialect, f, fields, out) ==
    [records |-> out.body.rows, url |-> query_url("explore", f, fields), fields |-> fields]

\* the tuple a successful execution returns
result_tuple(dialect, f, fields, out) ==
    [records |-> out.body.rows, url |-> query_url(dialect, f, fields), fields |-> fields]

\* mutant: status 400 is left out of the client-error range
fallback_above_400(prefer_explore, e) ==
    IF prefer_explore
    THEN IF e.type = "HTTPError" THEN 400 < e.code /\ e.code <= 499
         ELSE e.type \in {"URLError", "CertVerifyFailed", "JSONDecodeError"}
    ELSE e.type \in {"HTTPError", "URLError", "CertVerifyFailed", "JSONDecodeError"}

\* mutant: every exception of the first execution leads to the other dialect
fallback_any_exception(prefer_explore, e) == TRUE

\* mutant: the Explore branch catches every HTTPError, as the Records branch does
fallback_any_http(prefer_explore, e) ==
    e.type \in {"HTTPError", "URLError", "CertVerifyFailed", "JSONDecodeError"}

\* whether perform_search executes the other dialect after the first execution
\* raised e: the except clauses of the two branches
fallback(prefer_explore, e) ==
    IF prefer_explore
    THEN IF IsHTTPError(e) THEN 400 <= e.code /\ e.code <= 499
         ELSE IsURLError(e) \/ IsJSONDecodeError(e)
    ELSE IsHTTPError(e) \/ IsURLError(e) \/ IsJSONDecodeError(e)

(***************************************************************************)
(* State.                                                                  *)
(***************************************************************************)
VARIABLES
    now,             \* time.time()
    ticks,           \* clock advances so far
    calls,           \* perform_search calls started so far
    PREFER_EXPLORE,  \* the preferred-dialect flag of the process
    _SCHEMA_CACHE,   \* {"value": ..., "ts": ...}
    _RESULTS_CACHE,  \* key -> {"value": ..., "ts": ...}
    req              \* per thread: the position and locals of its perform_search
                     \* call, with the _http_get_json calls it made (net)

vars == <<now, ticks, calls, PREFER_EXPLORE, _SCHEMA_CACHE, _RESULTS_CACHE, req>>

NoResult == [records |-> "none"]
NoError == Exc("none")

\* a thread outside perform_search.  cached and now_l are the locals of
\* fetch_dataset_schema and are blanked when it returns; fs tells how
\* fetch_dataset_schema ended ("cached", "fetched" or "failed"), execs lists the
\* dialect executions of the call and age is the age of the cache entry that
\* _cache_get found (-1 when it found none)
Idle ==
    [pc |-> "idle", filter |-> BaseFilter, now_l |-> 0, cached |-> NoSchema,
     schema |-> NoSchema, fs |-> "none", fields |-> ResolvedFields,
     execs |-> <<>>, net |-> 0,
     age |-> -1, outcome |-> "none", result |-> NoResult, error |-> NoError]

\* the state after import, with the request-serving threads T
InitOf(T) ==
    /\ now = StartTime
    /\ ticks = 0
    /\ calls = 0
    /\ PREFER_EXPLORE \in BOOLEAN
    /\ _SCHEMA_CACHE = [value |-> NoSchema, ts |-> 0]
    /\ _RESULTS_CACHE = <<>>
    /\ req = [r \in T |-> Idle]

Reqs == DOMAIN req

Preferred == IF PREFER_EXPLORE THEN "explore" ELSE "records_v1"

\* pc = "done" only shows what the call that just ended did: the thread has
\* left perform_search, and Return is the next step taken
Running == \A r \in Reqs : req[r].pc # "done"

Key(r) == cache_key(req[r].filter, req[r].fields)

(***************************************************************************)
(* Steps of a perform_search call.                                         *)
(***************************************************************************)
\* perform_search is entered and calls fetch_dataset_schema(force_refresh=False),
\* which reads the clock and the cached value
Enter(r, f, limit) ==
    /\ Running
    /\ req[r].pc = "idle"
    /\ calls < limit
    /\ calls' = calls + 1
    /\ req' = [req EXCEPT ![r] = [Idle EXCEPT !.pc = "fs_check", !.filter = f,
                                              !.now_l = now,
                                              !.cached = _SCHEMA_CACHE.value]]
    /\ UNCHANGED <<now, ticks, PREFER_EXPLORE, _SCHEMA_CACHE, _RESULTS_CACHE>>

Call(r, f) == Enter(r, f, MaxCalls)

\* fetch_dataset_schema: the freshness test, which reads the cached timestamp
FsCheck(r) ==
    /\ Running
    /\ req[r].pc = "fs_check"
    /\ req' = [req EXCEPT ![r] =
                IF schema_fresh(FALSE, req[r].cached, req[r].now_l, _SCHEMA_CACHE.ts)
                THEN [@ EXCEPT !.pc = "cache_get", !.schema = req[r].cached,
                               !.fs = "cached", !.cached = NoSchema, !.now_l = 0]
                ELSE [@ EXCEPT !.pc = "fs_net", !.cached = NoSchema]]
    /\ UNCHANGED <<now, ticks, calls, PREFER_EXPLORE, _SCHEMA_CACHE, _RESULTS_CACHE>>

\* fetch_dataset_schema: the catalog fetch; on success the value is stored, on
\* failure the exception leaves perform_search
FsNet(r, o1, o2) ==
    /\ Running
    /\ req[r].pc = "fs_net"
    /\ LET out == _http_get_json(o1, o2)
           n == req[r].net + 1
       IN IF out.type = "ok"
          THEN /\ _SCHEMA_CACHE' = [_SCHEMA_CACHE EXCEPT !.value = out.body]
               /\ req' = [req EXCEPT ![r] = [@ EXCEPT !.pc = "fs_ts", !.net = n,
                                                      !.schema = out.body]]
          ELSE /\ UNCHANGED _SCHEMA_CACHE
               /\ req' = [req EXCEPT ![r] = [@ EXCEPT !.pc = "done", !.net = n,
                                                      !.now_l = 0, !.fs = "failed",
                                                      !.outcome = "raised",
                                                      !.error = out]]
    /\ UNCHANGED <<now, ticks, calls, PREFER_EXPLORE, _RESULTS_CACHE>>

\* fetch_dataset_schema: _SCHEMA_CACHE["ts"] = now
FsSetTs(r) ==
    /\ Running
    /\ req[r].pc = "fs_ts"
    /\ _SCHEMA_CACHE' = [_SCHEMA_CACHE EXCEPT !.ts = req[r].now_l]
    /\ req' = [req EXCEPT ![r] = [@ EXCEPT !.pc = "cache_get", !.now_l = 0,
                                           !.fs = "fetched"]]
    /\ UNCHANGED <<now, ticks, calls, PREFER_EXPLORE, _RESULTS_CACHE>>

\* resolve_fields, the cache key, and _cache_get up to its TTL test
CacheGet(r) ==
    /\ Running
    /\ req[r].pc = "cache_get"
    /\ LET fields == resolve_fields(req[r].schema)
           key == cache_key(req[r].filter, fields)
       IN IF key \notin DOMAIN _RESULTS_CACHE
          THEN req' = [req EXCEPT ![r] = [@ EXCEPT !.pc = "exec1", !.fields = fields]]
          ELSE LET entry == _RESULTS_CACHE[key]
               IN IF cache_expired(now, entry.ts)
                  THEN req' = [req EXCEPT ![r] =
                                [@ EXCEPT !.pc = "cache_pop", !.fields = fields,
                                          !.age = now - entry.ts]]
                  ELSE req' = [req EXCEPT ![r] =
                                [@ EXCEPT !.pc = "done", !.fields = fields,
                                          !.age = now - entry.ts,
                                          !.outcome = "hit",
                                          !.result = entry.value]]
    /\ UNCHANGED <<now, ticks, calls, PREFER_EXPLORE, _SCHEMA_CACHE, _RESULTS_CACHE>>

\* _cache_get: the lazy eviction of the entry found expired
CachePop(r) ==
    /\ Running
    /\ req[r].pc = "cache_pop"
    /\ _RESULTS_CACHE' = cache_pop(_RESULTS_CACHE, Key(r))
    /\ req' = [req EXCEPT ![r] = [@ EXCEPT !.pc = "exec1"]]
    /\ UNCHANGED <<now, ticks, calls, PREFER_EXPLORE, _SCHEMA_CACHE>>

Executed(r, dialect, out) ==
    Append(req[r].execs, [dialect |-> dialect, type |-> out.type, code |-> out.code])

\* the execution of the preferred dialect: success is cached and returned, a
\* failure leads to the other dialect or leaves perform_search
ExecPreferred(r, o1, o2) ==
    /\ Running
    /\ req[r].pc = "exec1"
    /\ LET out == try_dialect(_http_get_json(o1, o2))
           n == req[r].net + 1
           ex == Executed(r, Preferred, out)
           res == result_tuple(Preferred, req[r].filter, req[r].fields, out)
       IN IF out.type = "ok"
          THEN /\ _RESULTS_CACHE' = _cache_set(_RESULTS_CACHE, Key(r), res, now)
               /\ req' = [req EXCEPT ![r] = [@ EXCEPT !.pc = "done", !.net = n,
                                                      !.execs = ex,
                                                      !.outcome = "returned",
                                                      !.result = res]]
          ELSE /\ UNCHANGED _RESULTS_CACHE
               /\ req' = [req EXCEPT ![r] =
                           IF fallback(PREFER_EXPLORE, out)
                           THEN [@ EXCEPT !.pc = "exec2", !.net = n, !.execs = ex]
                           ELSE [@ EXCEPT !.pc = "done", !.net = n, !.execs = ex,
                                          !.outcome = "raised", !.error = out]]
    /\ UNCHANGED <<now, ticks, calls, PREFER_EXPLORE, _SCHEMA_CACHE>>

\* mutant: when the other dialect fails too, the call executes the preferred
\* dialect again
ExecFallback_again(r, o1, o2) ==
    /\ Running
    /\ req[r].pc = "exec2"
    /\ LET d == Other(Preferred)
           out == try_dialect(_http_get_json(o1, o2))
           n == req[r].net + 1
           ex == Executed(r, d, out)
           res == result_tuple(d, req[r].filter, req[r].fields, out)
       IN IF out.type = "ok"
          THEN /\ _RESULTS_CACHE' = _cache_set(_RESULTS_CACHE, Key(r), res, now)
               /\ req' = [req EXCEPT ![r] = [@ EXCEPT !.pc = "done", !.net = n,
                                                      !.execs = ex,
                                                      !.outcome = "returned",
                                                      !.result = res]]
          ELSE /\ UNCHANGED _RESULTS_CACHE
               /\ req' = [req EXCEPT ![r] = [@ EXCEPT !.pc = "exec1", !.execs = <<>>]]
    /\ UNCHANGED <<now, ticks, calls, PREFER_EXPLORE, _SCHEMA_CACHE>>

\* the execution of the other dialect, inside the except clause
ExecFallback(r, o1, o2) ==
    /\ Running
    /\ req[r].pc = "exec2"
    /\ LET d == Other(Preferred)
           out == try_dialect(_http_get_json(o1, o2))
           n == req[r].net + 1
           ex == Executed(r, d, out)
           res == result_tuple(d, req[r].filter, req[r].fields, out)
       IN IF out.type = "ok"
          THEN /\ _RESULTS_CACHE' = _cache_set(_RESULTS_CACHE, Key(r), res, now)
               /\ req' = [req EXCEPT ![r] = [@ EXCEPT !.pc = "done", !.net = n,
                                                      !.execs = ex,
                                                      !.outcome = "returned",
                                                      !.result = res]]
          ELSE /\ UNCHANGED _RESULTS_CACHE
               /\ req' = [req EXCEPT ![r] = [@ EXCEPT !.pc = "done", !.net = n,
                                                      !.execs = ex,
                                                      !.outcome = "raised",
                                                      !.error = out]]
    /\ UNCHANGED <<now, ticks, calls, PREFER_EXPLORE, _SCHEMA_CACHE>>

\* the thread has left perform_search and waits for its next request
Return(r) ==
    /\ req[r].pc = "done"
    /\ req' = [req EXCEPT ![r] = Idle]
    /\ UNCHANGED <<now, ticks, calls, PREFER_EXPLORE, _SCHEMA_CACHE, _RESULTS_CACHE>>

\* the clock advances
Tick(d) ==
    /\ Running
    /\ ticks < MaxTicks
    /\ ticks' = ticks + 1
    /\ now' = now + d
    /\ UNCHANGED <<calls, PREFER_EXPLORE, _SCHEMA_CACHE, _RESULTS_CACHE, req>>

(***************************************************************************)
(* SpecPolicy: the fallback policy.  Two threads serve requests for one    *)
(* filter, the clock stands still, and every outcome of every network call *)
(* is drawn.                                                               *)
(***************************************************************************)
PolicyFilters == {BaseFilter}

InitPolicy == InitOf({1, 2})

NextPolicy ==
    \/ \E r \in Reqs, f \in PolicyFilters : Call(r, f)
    \/ \E r \in Reqs : FsCheck(r)
    \/ \E r \in Reqs, o1 \in Attempts(SchemaValues) :
            \E o2 \in Retries(o1, SchemaValues) : FsNet(r, o1, o2)
    \/ \E r \in Reqs : FsSetTs(r)
    \/ \E r \in Reqs : CacheGet(r)
    \/ \E r \in Reqs, o1 \in Attempts(QueryBodies) :
            \E o2 \in Retries(o1, QueryBodies) : ExecPreferred(r, o1, o2)
    \/ \E r \in Reqs, o1 \in Attempts(QueryBodies) :
            \E o2 \in Retries(o1, QueryBodies) : ExecFallback(r, o1, o2)
    \/ \E r \in Reqs : Return(r)

SpecPolicy == InitPolicy /\ [][NextPolicy]_vars

(***************************************************************************)
(* SpecCache: the two caches over time.  One request is served at a time,  *)
(* the clock advances between any two steps, and a network call is         *)
(* answered with a body, answered with a 5xx status, or not answered.      *)
(***************************************************************************)
Ok(b) == [type |-> "ok", code |-> 0, body |-> b]

CacheSchemaAttempts == {Ok(SchemaA), Ok(EmptyObject), Exc("URLError")}

CacheQueryAttempts ==
    {Ok([kind |-> "object", rows |-> "recsA"]),
     [type |-> "HTTPError", code |-> 500, body |-> NoBody]}

InitCache == InitOf({1})

NextCache ==
    \/ \E r \in Reqs, f \in Filters : Call(r, f)
    \/ \E r \in Reqs : FsCheck(r)
    \/ \E r \in Reqs, o \in CacheSchemaAttempts : FsNet(r, o, o)
    \/ \E r \in Reqs : FsSetTs(r)
    \/ \E r \in Reqs : CacheGet(r)
    \/ \E r \in Reqs : CachePop(r)
    \/ \E r \in Reqs, o \in CacheQueryAttempts : ExecPreferred(r, o, o)
    \/ \E r \in Reqs, o \in CacheQueryAttempts : ExecFallback(r, o, o)
    \/ \E r \in Reqs : Return(r)
    \/ \E d \in TickSteps : Tick(d)

SpecCache == InitCache /\ [][NextCache]_vars

(***************************************************************************)
(* SpecRace: two threads serve requests for one filter at the same time    *)
(* while the clock advances; the dataset's schema changes right after the  *)
(* process started, and a query is answered with a body or with a 5xx      *)
(* status.                                                                 *)
(***************************************************************************)
\* what the catalog answers at time t: SchemaA at StartTime, SchemaB later on
Catalog(t) == Ok(IF t = StartTime THEN SchemaA ELSE SchemaB)

InitRace == InitOf({1, 2})

NextRace ==
    \/ \E r \in Reqs, f \in PolicyFilters : Enter(r, f, MaxRaceCalls)
    \/ \E r \in Reqs : FsCheck(r)
    \/ \E r \in Reqs : FsNet(r, Catalog(now), Catalog(now))
    \/ \E r \in Reqs : FsSetTs(r)
    \/ \E r \in Reqs : CacheGet(r)
    \/ \E r \in Reqs : CachePop(r)
    \/ \E r \in Reqs, o \in CacheQueryAttempts : ExecPreferred(r, o, o)
    \/ \E r \in Reqs, o \in CacheQueryAttempts : ExecFallback(r, o, o)
    \/ \E r \in Reqs : Return(r)
    \/ \E d \in TickSteps : Tick(d)

SpecRace == InitRace /\ [][NextRace]_vars

(***************************************************************************)
(* SpecHandlers: the two search handlers.  One thread serves GET           *)
(* /api/search and GET /search requests, the latter with or without        *)
(* refreshSchema=1, for filters that differ in the dates, the sort, the     *)
(* natures and the CPV prefix; the clock stands still.                      *)
(***************************************************************************)
\* the keyword-only parameters of perform_search, and those without default
perform_search_parameters ==
    {"q", "cpv_prefix", "dept_codes", "buyer", "date_from", "date_to",
     "nature_in", "use_training", "page", "page_size", "sort"}
perform_search_required == perform_search_parameters \ {"sort"}

\* the keywords of the perform_search call in api_search and in search_page
api_search_keywords ==
    {"q", "cpv_prefix", "dept_codes", "buyer", "date_from", "date_to",
     "nature_in", "use_training", "page", "page_size", "sort"}
search_page_keywords ==
    {"q", "cpv_prefix", "dept_codes", "buyer", "date_from", "date_to",
     "use_training", "page", "page_size"}

\* Python binds a call when every required parameter is given and no other
\* keyword is; it raises TypeError otherwise
binds(keywords) ==
    /\ perform_search_required \subseteq keywords
    /\ keywords \subseteq perform_search_parameters

HandlerFilters ==
    {BaseFilter,
     [BaseFilter EXCEPT !.sort = "deadline"],
     [BaseFilter EXCEPT !.date_from = "2024-01-01", !.date_to = "2024-12-31"],
     [BaseFilter EXCEPT !.nature_in = <<"Attribution">>],
     [BaseFilter EXCEPT !.cpv_prefix = "80"],
     [BaseFilter EXCEPT !.sort = "relevance", !.date_from = "2024-01-01",
                        !.date_to = "2024-12-31", !.nature_in = <<"Attribution">>,
                        !.cpv_prefix = "80"]}

\* GET /api/search: the handler calls perform_search with the filters read
\* from the query string
ApiSearch(r, f) ==
    /\ binds(api_search_keywords)
    /\ Enter(r, f, MaxCalls)

\* GET /search up to the schema refresh: with refreshSchema=1 the handler
\* writes _SCHEMA_CACHE["ts"] = 0 and calls fetch_dataset_schema(force_refresh=True),
\* which reads the clock and goes to the network whatever the cache holds
SearchPage(r, f, refreshSchema) ==
    /\ Running
    /\ req[r].pc = "idle"
    /\ calls < MaxCalls
    /\ calls' = calls + 1
    /\ IF refreshSchema
       THEN /\ _SCHEMA_CACHE' = [_SCHEMA_CACHE EXCEPT !.ts = 0]
            /\ req' = [req EXCEPT ![r] =
                        IF schema_fresh(TRUE, _SCHEMA_CACHE.value, now, 0)
                        THEN [Idle EXCEPT !.pc = "sp_search", !.filter = f,
                                          !.fs = "cached"]
                        ELSE [Idle EXCEPT !.pc = "sp_net", !.filter = f,
                                          !.now_l = now]]
       ELSE /\ UNCHANGED _SCHEMA_CACHE
            /\ req' = [req EXCEPT ![r] = [Idle EXCEPT !.pc = "sp_search",
                                                      !.filter = f]]
    /\ UNCHANGED <<now, ticks, PREFER_EXPLORE, _RESULTS_CACHE>>

\* the catalog fetch of the refresh: on success the value is stored, on failure
\* the handler swallows the exception
SpNet(r, o1, o2) ==
    /\ Running
    /\ req[r].pc = "sp_net"
    /\ LET out == _http_get_json(o1, o2)
           n == req[r].net + 1
       IN IF out.type = "ok"
          THEN /\ _SCHEMA_CACHE' = [_SCHEMA_CACHE EXCEPT !.value = out.body]
               /\ req' = [req EXCEPT ![r] = [@ EXCEPT !.pc = "sp_ts", !.net = n]]
          ELSE /\ UNCHANGED _SCHEMA_CACHE
               /\ req' = [req EXCEPT ![r] = [@ EXCEPT !.pc = "sp_search", !.net = n,
                                                      !.now_l = 0, !.fs = "failed"]]
    /\ UNCHANGED <<now, ticks, calls, PREFER_EXPLORE, _RESULTS_CACHE>>

\* the refresh stores its timestamp
SpSetTs(r) ==
    /\ Running
    /\ req[r].pc = "sp_ts"
    /\ _SCHEMA_CACHE' = [_SCHEMA_CACHE EXCEPT !.ts = req[r].now_l]
    /\ req' = [req EXCEPT ![r] = [@ EXCEPT !.pc = "sp_search", !.now_l = 0,
                                           !.fs = "fetched"]]
    /\ UNCHANGED <<now, ticks, calls, PREFER_EXPLORE, _RESULTS_CACHE>>

\* GET /search from its perform_search call on: a call that Python cannot bind
\* raises TypeError, which the handler's except clause turns into the error
\* banner of the page (fs still tells how the refresh ended)
SpSearch(r) ==
    /\ Running
    /\ req[r].pc = "sp_search"
    /\ req' = [req EXCEPT ![r] =
                IF binds(search_page_keywords)
                THEN [Idle EXCEPT !.pc = "fs_check", !.filter = req[r].filter,
                                  !.now_l = now, !.cached = _SCHEMA_CACHE.value]
                ELSE [@ EXCEPT !.pc = "done", !.outcome = "banner",
                               !.error = Exc("TypeError")]]
    /\ UNCHANGED <<now, ticks, calls, PREFER_EXPLORE, _SCHEMA_CACHE, _RESULTS_CACHE>>

InitHandlers == InitOf({1})

NextHandlers ==
    \/ \E r \in Reqs, f \in HandlerFilters : ApiSearch(r, f)
    \/ \E r \in Reqs, f \in HandlerFilters, x \in BOOLEAN : SearchPage(r, f, x)
    \/ \E r \in Reqs, o \in CacheSchemaAttempts : SpNet(r, o, o)
    \/ \E r \in Reqs : SpSetTs(r)
    \/ \E r \in Reqs : SpSearch(r)
    \/ \E r \in Reqs : FsCheck(r)
    \/ \E r \in Reqs, o \in CacheSchemaAttempts : FsNet(r, o, o)
    \/ \E r \in Reqs : FsSetTs(r)
    \/ \E r \in Reqs : CacheGet(r)
    \/ \E r \in Reqs, o \in CacheQueryAttempts : ExecPreferred(r, o, o)
    \/ \E r \in Reqs, o \in CacheQueryAttempts : ExecFallback(r, o, o)
    \/ \E r \in Reqs : Return(r)

SpecHandlers == InitHandlers /\ [][NextHandlers]_vars

(***************************************************************************)
(* SpecProgress: one thread serves requests for one filter while the clock *)
(* advances.  A thread that can take a step eventually takes one: the      *)
(* operating system schedules the thread, no step waits for a lock, and a  *)
(* network call returns or ends by its timeout (urlopen is given one).     *)
(***************************************************************************)
ProgressThreads == {1}

InitProgress == InitOf(ProgressThreads)

\* the steps of thread r once its call has started
Step(r) ==
    \/ FsCheck(r)
    \/ \E o \in CacheSchemaAttempts : FsNet(r, o, o)
    \/ FsSetTs(r)
    \/ CacheGet(r)
    \/ CachePop(r)
    \/ \E o \in CacheQueryAttempts : ExecPreferred(r, o, o)
    \/ \E o \in CacheQueryAttempts : ExecFallback(r, o, o)
    \/ Return(r)

NextProgress ==
    \/ \E r \in ProgressThreads, f \in PolicyFilters : Call(r, f)
    \/ \E r \in ProgressThreads : Step(r)
    \/ \E d \in TickSteps : Tick(d)

Fairness == \A r \in ProgressThreads : WF_vars(Step(r))

SpecProgress == InitProgress /\ [][NextProgress]_vars /\ Fairness

(***************************************************************************)
(* Text.  A string is a sequence of one-character strings.  A built text   *)
(* (a where expression, a parameter value) is a sequence of segments, each *)
(* either written by the program (its text is one token) or copied from a  *)
(* caller-supplied string (its text is that string's characters).          *)
(***************************************************************************)
Lit(x) == <<[user |-> FALSE, text |-> <<x>>]>>
User(v) == <<[user |-> TRUE, text |-> v]>>

\* str.strip() and the truth value of a string after it
RECURSIVE lstrip(_)
lstrip(s) == IF s # <<>> /\ Head(s) = " " THEN lstrip(Tail(s)) ELSE s

RECURSIVE rstrip(_)
rstrip(s) ==
    IF s # <<>> /\ s[Len(s)] = " " THEN rstrip(SubSeq(s, 1, Len(s) - 1)) ELSE s

strip(s) == rstrip(lstrip(s))

NotBlank(s) == strip(s) # <<>>

\* str.replace("'", "''")
RECURSIVE replace_quote(_)
replace_quote(s) ==
    IF s = <<>> THEN <<>>
    ELSE (IF Head(s) = "'" THEN <<"'", "'">> ELSE <<Head(s)>>) \o replace_quote(Tail(s))

\* sep.join(parts)
RECURSIVE join(_, _)
join(sep, parts) ==
    IF parts = <<>> THEN <<>>
    ELSE IF Len(parts) = 1 THEN parts[1]
    ELSE parts[1] \o sep \o join(sep, Tail(parts))

\* str() of a non-negative integer: its decimal digits
DecimalDigits == <<"0", "1", "2", "3", "4", "5", "6", "7", "8", "9">>

RECURSIVE str(_)
str(n) ==
    IF n < 10 THEN <<DecimalDigits[n + 1]>>
    ELSE str(n \div 10) \o <<DecimalDigits[(n % 10) + 1]>>

\* "x or d" on a field name
OrElse(x, d) == IF x = "" THEN d ELSE x

\* the text of a number the program formats
Num(n) == <<[user |-> FALSE, text |-> str(n)]>>

Param(k, v) == <<[k |-> k, field |-> "", v |-> v]>>

(***************************************************************************)
(* Query builders.  The value returned is the list of parameters that      *)
(* urlencode writes after the endpoint's path, in order; an optional       *)
(* string or list is passed empty when it is None, which every test of the *)
(* builders treats as it treats None.                                      *)
(***************************************************************************)
\* ODS_APIKEY is not set
ODS_APIKEY == None

_safe_like_fragment(field, value) ==
    Lit("string(") \o Lit(field) \o Lit(") LIKE '%")
        \o User(replace_quote(value)) \o Lit("%'")

\* mutant: the whitelist clauses are joined by AND
cpv_whitelist_and(cpv_whitelist, fields) ==
    LET kept == SelectSeq(cpv_whitelist, NotBlank)
        parts == [i \in 1..Len(kept) |->
                    _safe_like_fragment(OrElse(fields.cpv, "cpv"), kept[i])]
    IN IF cpv_whitelist # <<>> /\ parts # <<>>
       THEN <<Lit("(") \o join(Lit(" AND "), parts) \o Lit(")")>>
       ELSE <<>>

\* the conjunct of the CPV whitelist, if any
cpv_whitelist_where(cpv_whitelist, fields) ==
    LET kept == SelectSeq(cpv_whitelist, NotBlank)
        parts == [i \in 1..Len(kept) |->
                    _safe_like_fragment(OrElse(fields.cpv, "cpv"), kept[i])]
    IN IF cpv_whitelist # <<>> /\ parts # <<>>
       THEN <<Lit("(") \o join(Lit(" OR "), parts) \o Lit(")")>>
       ELSE <<>>

cpv_prefix_where(cpv_prefix, fields) ==
    LET prefix == replace_quote(cpv_prefix)
        f == OrElse(fields.cpv, "cpv")
    IN IF cpv_prefix # <<>>
       THEN <<Lit("(string(") \o Lit(f) \o Lit(") LIKE '") \o User(prefix)
                \o Lit("%' OR string(") \o Lit(f) \o Lit(") LIKE '%") \o User(prefix)
                \o Lit("%')")>>
       ELSE <<>>

dept_codes_where(dept_codes, fields) ==
    LET in_list == join(Lit(","), [i \in 1..Len(dept_codes) |->
                                    Lit("'") \o User(dept_codes[i]) \o Lit("'")])
    IN IF dept_codes # <<>>
       THEN <<Lit("(") \o Lit(OrElse(fields.dept, "departement")) \o Lit(" IN (")
                \o in_list \o Lit("))")>>
       ELSE <<>>

buyer_where(buyer, fields) ==
    IF buyer # <<>> /\ NotBlank(buyer)
    THEN <<_safe_like_fragment(OrElse(fields.buyer, "acheteur"), buyer)>>
    ELSE <<>>

service_category_where(service_category_equals, fields) ==
    IF service_category_equals # <<>>
    THEN <<Lit(OrElse(fields.serviceCategory, "categorie_services")) \o Lit(" = '")
            \o User(replace_quote(service_category_equals)) \o Lit("'")>>
    ELSE <<>>

nature_where(nature_in, fields) ==
    LET kept == SelectSeq(nature_in, NotBlank)
        values == [i \in 1..Len(kept) |->
                    Lit("'") \o User(replace_quote(kept[i])) \o Lit("'")]
    IN IF nature_in # <<>> /\ values # <<>>
       THEN <<Lit("string(") \o Lit(OrElse(fields.nature, "nature")) \o Lit(") IN (")
                \o join(Lit(","), values) \o Lit(")")>>
       ELSE <<>>

date_field(fields) == OrElse(fields.date, "record_timestamp")

date_where(date_from, date_to, fields) ==
    (IF date_from # <<>>
     THEN <<Lit(date_field(fields)) \o Lit(" >= '") \o User(date_from) \o Lit("'")>>
     ELSE <<>>)
    \o (IF date_to # <<>>
        THEN <<Lit(date_field(fields)) \o Lit(" <= '") \o User(date_to) \o Lit("'")>>
        ELSE <<>>)

\* the list where of build_explore_url
explore_where(a) ==
    cpv_whitelist_where(a.cpv_whitelist, a.fields)
        \o cpv_prefix_where(a.cpv_prefix, a.fields)
        \o dept_codes_where(a.dept_codes, a.fields)
        \o buyer_where(a.buyer, a.fields)
        \o service_category_where(a.service_category_equals, a.fields)
        \o nature_where(a.nature_in, a.fields)
        \o date_where(a.date_from, a.date_to, a.fields)

\* mutant: relevance is taken whatever the free text
order_by_any_text(sort, keywords, fields) ==
    IF sort = "deadline" /\ fields.deadline # ""
    THEN Lit("-") \o Lit(fields.deadline)
    ELSE IF sort = "relevance"
    THEN Lit("relevance")
    ELSE Lit("-") \o Lit(date_field(fields))

\* the value of the order_by parameter
order_by(sort, keywords, fields) ==
    IF sort = "deadline" /\ fields.deadline # ""
    THEN Lit("-") \o Lit(fields.deadline)
    ELSE IF sort = "relevance" /\ keywords # <<>> /\ NotBlank(keywords)
    THEN Lit("relevance")
    ELSE Lit("-") \o Lit(date_field(fields))

\* mutant: the start position counts pages from 0
start_position_page(page, page_size) == page * page_size

\* (page - 1) * page_size
start_position(page, page_size) == (page - 1) * page_size

build_explore_url(a) ==
    (IF a.keywords # <<>> /\ NotBlank(a.keywords)
     THEN Param("q", User(strip(a.keywords))) ELSE <<>>)
    \o (IF explore_where(a) # <<>>
        THEN Param("where", join(Lit(" AND "), explore_where(a))) ELSE <<>>)
    \o Param("order_by", order_by(a.sort, a.keywords, a.fields))
    \o Param("limit", Num(a.page_size))
    \o Param("offset", Num(start_position(a.page, a.page_size)))
    \o (IF ODS_APIKEY # None THEN Param("apikey", Lit(ODS_APIKEY)) ELSE <<>>)

\* refine.<field>=<value>, once per value
refine(field, values) ==
    [i \in 1..Len(values) |-> [k |-> "refine", field |-> field, v |-> User(values[i])]]

build_records_v1_url(a) ==
    Param("dataset", Lit("DATASET_ID"))
    \o Param("rows", Num(a.page_size))
    \o Param("start", Num(start_position(a.page, a.page_size)))
    \o (IF a.q # <<>> THEN Param("q", User(a.q)) ELSE <<>>)
    \o (IF a.cpv_whitelist # <<>>
        THEN refine(OrElse(a.fields.cpv, "cpv"), a.cpv_whitelist) ELSE <<>>)
    \o (IF a.service_category_equals # <<>>
        THEN refine(OrElse(a.fields.serviceCategory, "categorie_services"),
                    <<a.service_category_equals>>)
        ELSE <<>>)
    \o (IF a.dept_codes # <<>>
        THEN refine(OrElse(a.fields.dept, "code_departement"), a.dept_codes) ELSE <<>>)
    \o (IF a.buyer # <<>>
        THEN refine(OrElse(a.fields.buyer, "acheteur"), <<a.buyer>>) ELSE <<>>)
    \o (IF ODS_APIKEY # None THEN Param("apikey", Lit(ODS_APIKEY)) ELSE <<>>)

(***************************************************************************)
(* Record URL normalisation.  A URL is a sequence of tokens: a scheme      *)
(* ("https://"), host labels, "/" and path pieces.                         *)
(***************************************************************************)
\* str.rstrip("/")
RECURSIVE rstrip_slash(_)
rstrip_slash(u) ==
    IF u # <<>> /\ u[Len(u)] = "/" THEN rstrip_slash(SubSeq(u, 1, Len(u) - 1)) ELSE u

\* the tokens of u before its first "/"
RECURSIVE before_path(_)
before_path(u) ==
    IF u = <<>> \/ Head(u) = "/" THEN <<>> ELSE <<Head(u)>> \o before_path(Tail(u))

\* urlparse(u).hostname or "": the host labels after the scheme, none when the
\* URL has no scheme
hostname(u) ==
    IF u # <<>> /\ Head(u) = "https://" THEN before_path(Tail(u)) ELSE <<>>

\* host.endswith("boamp.fr")
is_boamp_portal(host) == host # <<>> /\ host[Len(host)] = "boamp.fr"

\* urllib.parse.quote_plus on the characters of a record id
RECURSIVE quote_plus(_)
quote_plus(s) ==
    IF s = <<>> THEN <<>>
    ELSE (CASE Head(s) = " " -> <<"+">>
            [] Head(s) = "=" -> <<"%3D">>
            [] OTHER -> <<Head(s)>>) \o quote_plus(Tail(s))

\* scheme and host of u
origin(u) == IF u # <<>> /\ Head(u) = "https://" THEN <<Head(u)>> \o before_path(Tail(u)) ELSE <<>>

\* urljoin(b, u) for a base b that ends with "/"
urljoin(b, u) ==
    IF Head(u) = "https://" THEN u
    ELSE IF Head(u) = "/" THEN origin(b) \o u
    ELSE b \o u

\* "/pages/entreprise-accueil" in href
has_landing_page(href) ==
    \E i \in 1..(Len(href) - 1) :
        href[i] = "/" /\ href[i + 1] = "pages/entreprise-accueil"

\* mutant: the notice-detail form is used on every host
detail_on_any_host(base, dataset_id, raw_url, ref, record_id) ==
    LET base_no_slash == rstrip_slash(base)
        dataset_record ==
            IF record_id # <<>>
            THEN base_no_slash \o <<"/", "explore/dataset/", dataset_id, "/", "record/?id=">>
                    \o quote_plus(record_id)
            ELSE base_no_slash
    IN IF ref # <<>> THEN base_no_slash \o <<"/", "avis/detail/">> \o ref
       ELSE dataset_record

_normalize_record_url(base, dataset_id, raw_url, ref, record_id) ==
    LET base_no_slash == rstrip_slash(base)
        host == hostname(base_no_slash)
        dataset_record ==
            IF record_id # <<>>
            THEN base_no_slash \o <<"/", "explore/dataset/", dataset_id, "/", "record/?id=">>
                    \o quote_plus(record_id)
            ELSE base_no_slash
        detail == base_no_slash \o <<"/", "avis/detail/">> \o ref
        href == urljoin(base_no_slash \o <<"/">>, raw_url)
    IN IF raw_url = <<>>
       THEN IF is_boamp_portal(host) /\ ref # <<>> THEN detail ELSE dataset_record
       ELSE IF href = base_no_slash \o <<"/">> \/ has_landing_page(href)
            THEN IF is_boamp_portal(host) /\ ref # <<>> THEN detail ELSE dataset_record
            ELSE href

(***************************************************************************)
(* SpecFunctions: one application of a pure function of the module.  The   *)
(* thread holds the function's name and arguments and, after the step, the *)
(* value returned.                                                         *)
(***************************************************************************)
\* caller-supplied strings
Plain == <<"a", "b">>
Quoted == <<"o", "'", "b">>
Blank == <<" ">>
Padded == <<" ", "a", " ">>
UserStrings == {<<>>, Plain, Quoted}

\* the catalog payloads resolve_fields is applied to: objects whose column
\* list is any sequence of up to MaxColumns names, and malformed payloads
MaxColumns == 3
ColumnNames == {"dateparution", "date_publication", "objet", "type", ""}
ColumnLists == UNION {[1..n -> ColumnNames] : n \in 0..MaxColumns}
SchemaInputs ==
    {[kind |-> "object", names |-> c] : c \in ColumnLists}
    \cup {NoSchema, EmptyObject, ArrayPayload, [kind |-> "string", names |-> <<>>]}

\* field sets the builders are given
FieldsInputs ==
    {resolve_fields(SchemaA), ResolvedFields,
     [ResolvedFields EXCEPT !.deadline = "", !.date = ""]}

BaseArgs ==
    [keywords |-> Plain, cpv_prefix |-> <<>>, dept_codes |-> <<>>, buyer |-> <<>>,
     service_category_equals |-> <<>>, cpv_whitelist |-> <<>>, nature_in |-> <<>>,
     sort |-> None, date_from |-> <<>>, date_to |-> <<>>, page |-> 1,
     page_size |-> 20, fields |-> ResolvedFields]

\* calls that vary the filters
WhereInputs ==
    {[BaseArgs EXCEPT !.cpv_whitelist = w, !.cpv_prefix = p, !.dept_codes = d,
                      !.buyer = b, !.service_category_equals = c,
                      !.nature_in = n, !.date_from = df, !.date_to = dt] :
        w \in {<<>>, <<Plain>>, <<Plain, Quoted>>, <<Blank>>, <<Plain, Blank, Quoted>>},
        p \in UserStrings,
        d \in {<<>>, <<Plain>>, <<Plain, Quoted>>},
        b \in UserStrings \cup {Blank},
        c \in {<<>>, Quoted},
        n \in {<<>>, <<Plain, Quoted>>, <<Blank>>},
        df \in {<<>>, Quoted},
        dt \in {<<>>, Quoted}}

\* calls that vary the ordering
OrderInputs ==
    {[BaseArgs EXCEPT !.sort = s, !.keywords = k, !.fields = f] :
        s \in {None, "deadline", "relevance", "date"},
        k \in {<<>>, Blank, Plain, Padded},
        f \in FieldsInputs}

\* page_size is clamped to 1..PAGE_SIZE_MAX by the callers, page to 1 and above
MaxPage == 3
PAGE_SIZE_MAX == 100
PageInputs ==
    {[BaseArgs EXCEPT !.page = p, !.page_size = z] :
        p \in 1..MaxPage, z \in 1..PAGE_SIZE_MAX}

ExploreInputs == WhereInputs \cup OrderInputs \cup PageInputs

RecordsV1Inputs ==
    {[q |-> a.keywords, dept_codes |-> a.dept_codes, buyer |-> a.buyer,
      cpv_whitelist |-> a.cpv_whitelist,
      service_category_equals |-> a.service_category_equals,
      page |-> a.page, page_size |-> a.page_size, fields |-> a.fields] :
        a \in PageInputs \cup {x \in WhereInputs : x.cpv_prefix = <<>> /\ x.nature_in = <<>>
                                                    /\ x.date_from = <<>> /\ x.date_to = <<>>}}

Bases ==
    {<<"https://", "www.", "boamp.fr">>, <<"https://", "boamp.fr", "/">>,
     <<"https://", "boamp-datadila.opendatasoft.com">>,
     <<"https://", "boamp-datadila.opendatasoft.com", "/">>,
     <<"www.", "boamp.fr">>}

RawUrls ==
    {<<>>, <<"/">>, <<"/", "pages/entreprise-accueil">>, <<"avis/1">>,
     <<"https://", "www.", "boamp.fr", "/", "pages/entreprise-accueil">>,
     <<"https://", "example.org", "/", "avis/1">>,
     <<"https://", "www.", "boamp.fr">>, <<"https://", "www.", "boamp.fr", "/">>}

NormalizeInputs ==
    {[base |-> b, dataset_id |-> "boamp", raw_url |-> u, ref |-> f, record_id |-> i] :
        b \in Bases, u \in RawUrls,
        f \in {<<>>, <<"24-12345">>},
        i \in {<<>>, <<"a", "1">>, <<"a", " ", "=">>}}

NoValue == [kind |-> "none"]

Applying(fn, a) == [pc |-> "args", fn |-> fn, args |-> a, ret |-> NoValue]

FunctionCalls ==
    {Applying("resolve_fields", a) : a \in SchemaInputs}
    \cup {Applying("build_explore_url", a) : a \in ExploreInputs}
    \cup {Applying("build_records_v1_url", a) : a \in RecordsV1Inputs}
    \cup {Applying("_normalize_record_url", a) : a \in NormalizeInputs}

InitFunctions ==
    /\ now = StartTime
    /\ ticks = 0
    /\ calls = 0
    /\ PREFER_EXPLORE = TRUE
    /\ _SCHEMA_CACHE = [value |-> NoSchema, ts |-> 0]
    /\ _RESULTS_CACHE = <<>>
    /\ req \in [{1} -> FunctionCalls]

Returns(r, fn, value) ==
    /\ req[r].pc = "args"
    /\ req[r].fn = fn
    /\ req' = [req EXCEPT ![r] = [@ EXCEPT !.pc = "ret", !.ret = value]]
    /\ UNCHANGED <<now, ticks, calls, PREFER_EXPLORE, _SCHEMA_CACHE, _RESULTS_CACHE>>

ResolveFields(r) == Returns(r, "resolve_fields", resolve_fields(req[r].args))

BuildExploreUrl(r) == Returns(r, "build_explore_url", build_explore_url(req[r].args))

BuildRecordsV1Url(r) ==
    Returns(r, "build_records_v1_url", build_records_v1_url(req[r].args))

NormalizeRecordUrl(r) ==
    Returns(r, "_normalize_record_url",
            _normalize_record_url(req[r].args.base, req[r].args.dataset_id,
                                  req[r].args.raw_url, req[r].args.ref,
                                  req[r].args.record_id))

NextFunctions ==
    \/ \E r \in Reqs : ResolveFields(r)
    \/ \E r \in Reqs : BuildExploreUrl(r)
    \/ \E r \in Reqs : BuildRecordsV1Url(r)
    \/ \E r \in Reqs : NormalizeRecordUrl(r)

SpecFunctions == InitFunctions /\ [][NextFunctions]_vars

(***************************************************************************)
(* Properties of the fallback policy (SpecPolicy).                         *)
(***************************************************************************)
Execs(r) == req[r].execs

ClientError(x) == x.type = "HTTPError" /\ x.code >= 400 /\ x.code <= 499
ServerError(x) == x.type = "HTTPError" /\ x.code >= 500

\* C1: with Explore preferred, a 4xx HTTP error of the Explore execution is
\* followed by exactly one Records v1 execution, and when that execution
\* succeeds its tuple is in the result cache under the call's key and is the
\* tuple the call returns.
C1_ClientErrorFallsBack ==
    \A r \in Reqs :
        (PREFER_EXPLORE /\ Len(Execs(r)) >= 1 /\ ClientError(Execs(r)[1])) =>
            /\ Execs(r)[1].dialect = "explore"
            /\ req[r].pc \in {"exec2", "done"}
            /\ req[r].pc = "exec2" => Len(Execs(r)) = 1
            /\ req[r].pc = "done" =>
                /\ Len(Execs(r)) = 2
                /\ Execs(r)[2].dialect = "records_v1"
                /\ Execs(r)[2].type = "ok" =>
                    /\ req[r].outcome = "returned"
                    /\ req[r].result.url.api = "records_v1"
                    /\ Key(r) \in DOMAIN _RESULTS_CACHE
                    /\ _RESULTS_CACHE[Key(r)].value = req[r].result

C1_Witness ==
    \E r \in Reqs :
        /\ PREFER_EXPLORE
        /\ req[r].pc = "done"
        /\ Len(Execs(r)) = 2
        /\ ClientError(Execs(r)[1])
        /\ Execs(r)[2].type = "ok"
        /\ req[r].outcome = "returned"

C3_TransportOrParseFallsBack ==
    \A r \in Reqs :
        (/\ req[r].pc = "done"
         /\ Len(Execs(r)) >= 1
         /\ Execs(r)[1].type \in {"URLError", "TimeoutError", "JSONDecodeError"}) =>
            /\ Len(Execs(r)) = 2
            /\ Execs(r)[2].dialect = Other(Execs(r)[1].dialect)

\* C4: with Records v1 preferred the policy is the same with the roles
\* swapped: a 4xx, connection or JSON failure of the Records v1 execution is
\* followed by exactly one Explore execution, and an HTTP error of status 500 or
\* above is raised with no Explore execution.
C4_SymmetricPolicy ==
    \A r \in Reqs :
        ((~PREFER_EXPLORE) /\ req[r].pc = "done" /\ Len(Execs(r)) >= 1) =>
            /\ (\/ ClientError(Execs(r)[1])
                \/ Execs(r)[1].type \in {"URLError", "JSONDecodeError"}) =>
                    /\ Len(Execs(r)) = 2
                    /\ Execs(r)[2].dialect = "explore"
            /\ ServerError(Execs(r)[1]) =>
                    /\ Len(Execs(r)) = 1
                    /\ req[r].outcome = "raised"
                    /\ req[r].error.code = Execs(r)[1].code

\* C5: a call executes at most two queries, never the same dialect twice, and
\* when the second execution fails too the error raised is the second one's.
C5_AtMostOncePerDialect ==
    \A r \in Reqs :
        /\ Len(Execs(r)) <= 2
        /\ Len(Execs(r)) = 2 =>
            /\ Execs(r)[1].dialect # Execs(r)[2].dialect
            /\ Execs(r)[1].type # "ok"
        /\ (req[r].pc = "done" /\ Len(Execs(r)) = 2 /\ Execs(r)[2].type # "ok") =>
            /\ req[r].outcome = "raised"
            /\ req[r].error.type = Execs(r)[2].type
            /\ req[r].error.code = Execs(r)[2].code

C5_Witness ==
    \E r \in Reqs :
        /\ req[r].pc = "done"
        /\ Len(Execs(r)) = 2
        /\ Execs(r)[2].type # "ok"
        /\ Execs(r)[1].type # Execs(r)[2].type
        /\ req[r].outcome = "raised"

\* C6: a call raises only after both dialects were executed and both failed.
C6_RaisesOnlyWhenExhausted ==
    \A r \in Reqs :
        req[r].outcome = "raised" =>
            /\ Len(Execs(r)) = 2
            /\ Execs(r)[1].type # "ok"
            /\ Execs(r)[2].type # "ok"

(***************************************************************************)
(* Properties of the caches (SpecCache).                                   *)
(***************************************************************************)
\* C7: a call that is served from the result cache has made no network call,
\* whatever the schema cache held when it started.
C7_HitMakesNoNetworkCall ==
    \A r \in Reqs : req[r].outcome = "hit" => req[r].net = 0

\* C8 as stated: an entry is served only while its age is below the TTL.
C8_ServedOnlyBelowTtl ==
    \A r \in Reqs :
        req[r].outcome = "hit" => req[r].age < RESULTS_CACHE_TTL_SECONDS

\* C8 as amended: an entry found with an age above the TTL is not served, is
\* removed from the cache, and the call goes on to execute an upstream query;
\* an entry found with an age of at most the TTL is served.
C8_ExpiryAfterTtl ==
    \A r \in Reqs :
        req[r].age >= 0 =>
            IF req[r].age > RESULTS_CACHE_TTL_SECONDS
            THEN /\ req[r].outcome # "hit"
                 /\ req[r].pc \in {"cache_pop", "exec1", "exec2", "done"}
                 /\ req[r].pc \in {"exec1", "exec2"} =>
                        Key(r) \notin DOMAIN _RESULTS_CACHE
                 /\ req[r].pc = "done" => Len(Execs(r)) >= 1
            ELSE /\ req[r].pc = "done"
                 /\ req[r].outcome = "hit"
                 /\ Execs(r) = <<>>
                 /\ req[r].result = _RESULTS_CACHE[Key(r)].value

C8_Witness ==
    \E r \in Reqs :
        /\ req[r].age > RESULTS_CACHE_TTL_SECONDS
        /\ req[r].pc = "done"
        /\ Len(Execs(r)) >= 1
        /\ req[r].outcome = "returned"

SetOf(s) == {s[i] : i \in 1..Len(s)}

\* the key k was computed for a request with the filter values of f and the
\* resolved fields fields, the two lists taken as unordered
SameRequest(k, f, fields) ==
    /\ k.q = f.q /\ k.cpv_prefix = f.cpv_prefix /\ k.buyer = f.buyer
    /\ k.date_from = f.date_from /\ k.date_to = f.date_to
    /\ k.use_training = f.use_training
    /\ k.page = f.page /\ k.page_size = f.page_size
    /\ k.sort = (IF f.sort = None THEN "" ELSE f.sort)
    /\ Len(k.dept_codes) = Len(f.dept_codes)
    /\ SetOf(k.dept_codes) = SetOf(f.dept_codes)
    /\ Len(k.nature_in) = Len(f.nature_in)
    /\ SetOf(k.nature_in) = SetOf(f.nature_in)
    /\ k.fields = fields

\* C9: the key a call computes is the key of every cached entry that was
\* stored for a request with equal filter values and equal resolved fields,
\* whatever the order of the department codes and of the natures.
C9_OrderInsensitiveKey ==
    \A r \in Reqs :
        req[r].pc \in {"cache_pop", "exec1", "exec2"} =>
            \A k \in DOMAIN _RESULTS_CACHE :
                SameRequest(k, req[r].filter, req[r].fields) => k = Key(r)

\* C10: a call whose catalog fetch failed does not end with that failure: it
\* carries on with the default field names and executes a dialect query.
C10_SchemaFailureDegrades ==
    \A r \in Reqs :
        (req[r].fs = "failed" /\ req[r].pc = "done") =>
            /\ req[r].fields = ResolvedFields
            /\ Len(Execs(r)) >= 1

(***************************************************************************)
(* Properties of the schema cache and of the caches under concurrency.     *)
(***************************************************************************)
\* C11: a call that goes on to fetch the catalog found no snapshot cached less
\* than _SCHEMA_TTL_SECONDS before it started, whatever the JSON value of the
\* snapshot (one request at a time).
C11_FreshSnapshotNotRefetched ==
    \A r \in Reqs :
        req[r].pc = "fs_net" =>
            ~(/\ _SCHEMA_CACHE.value # NoSchema
              /\ req[r].now_l - _SCHEMA_CACHE.ts < _SCHEMA_TTL_SECONDS)

\* C12: no step removes from the result cache an entry that is within its TTL.
C12_NoFreshEntryRemoved ==
    [][\A k \in DOMAIN _RESULTS_CACHE :
            k \notin DOMAIN _RESULTS_CACHE' =>
                (now - _RESULTS_CACHE[k].ts) > RESULTS_CACHE_TTL_SECONDS]_vars

\* C13: with the catalog of SpecRace, SchemaA is a snapshot fetched at
\* StartTime; no call takes it as fresh when it started _SCHEMA_TTL_SECONDS or
\* more after StartTime.
C13_NoStaleSnapshotTakenAsFresh ==
    [][\A r \in Reqs :
            (/\ req[r].pc = "fs_check"
             /\ req'[r].fs = "cached"
             /\ req'[r].schema = SchemaA) =>
                req[r].now_l - StartTime < _SCHEMA_TTL_SECONDS]_vars

(***************************************************************************)
(* Properties of the pure functions (SpecFunctions).                       *)
(***************************************************************************)
Returned(r, fn) == req[r].pc = "ret" /\ req[r].fn = fn

\* the values of the parameters named k in a parameter list
Values(params, k) == {params[i].v : i \in {j \in 1..Len(params) : params[j].k = k}}
Count(params, k) == Cardinality({j \in 1..Len(params) : params[j].k = k})

\* the characters of a text
RECURSIVE Flat(_)
Flat(text) == IF text = <<>> THEN <<>> ELSE Head(text).text \o Flat(Tail(text))

\* every single quote of s is one of a pair
RECURSIVE QuotesDoubled(_)
QuotesDoubled(s) ==
    IF s = <<>> THEN TRUE
    ELSE IF Head(s) # "'" THEN QuotesDoubled(Tail(s))
    ELSE Len(s) >= 2 /\ s[2] = "'" /\ QuotesDoubled(Tail(Tail(s)))

\* C14: in the where expression of build_explore_url, every piece copied from a
\* caller-supplied string (all of them sit inside single-quoted literals) has
\* each of its single quotes doubled.
C14_EveryLiteralEscaped ==
    \A r \in Reqs :
        Returned(r, "build_explore_url") =>
            \A w \in Values(req[r].ret, "where") :
                \A i \in 1..Len(w) : w[i].user => QuotesDoubled(w[i].text)

\* the column names of a catalog payload, as a set
Columns(schema) ==
    IF schema.kind = "object" THEN {schema.names[i] : i \in 1..Len(schema.names)} ELSE {}

\* C15: resolve_fields sets each slot to the first of the slot's candidates, in
\* FIELD_CANDIDATES order, that is a column of the schema, whatever the order
\* of the columns, and to the slot's default when none is; a schema with
\* "dateparution" and without "date_publication" resolves date to "dateparution".
C15_FirstCandidateWins ==
    \A r \in Reqs :
        Returned(r, "resolve_fields") =>
            /\ \A s \in Slots :
                LET found == {i \in 1..Len(FIELD_CANDIDATES[s]) :
                                FIELD_CANDIDATES[s][i] \in Columns(req[r].args)}
                IN IF found = {}
                   THEN req[r].ret[s] = ResolvedFields[s]
                   ELSE \E i \in found :
                            /\ \A j \in found : i <= j
                            /\ req[r].ret[s] = FIELD_CANDIDATES[s][i]
            /\ ("dateparution" \in Columns(req[r].args)
                /\ "date_publication" \notin Columns(req[r].args)) =>
                    req[r].ret.date = "dateparution"

C15_Witness ==
    \E r \in Reqs :
        /\ Returned(r, "resolve_fields")
        /\ req[r].args.kind = "object"
        /\ req[r].args.names = <<"date_publication", "objet", "dateparution">>
        /\ req[r].ret.date = "dateparution"
        /\ req[r].ret.title = "objet"
        /\ req[r].ret.description = "objet"
        /\ req[r].ret.cpv = "cpv"

\* C16: resolve_fields returns, for every catalog payload and the malformed
\* ones among them, a value with the 16 slots, each a non-empty string.
C16_EverySlotNonEmpty ==
    \A r \in Reqs :
        Returned(r, "resolve_fields") =>
            /\ DOMAIN req[r].ret = Slots
            /\ Cardinality(DOMAIN req[r].ret) = 16
            /\ \A s \in Slots : req[r].ret[s] # ""

C16_Witness ==
    \E r \in Reqs :
        /\ Returned(r, "resolve_fields")
        /\ req[r].args.kind = "array"
        /\ req[r].ret = ResolvedFields

\* C17: build_explore_url emits exactly one order_by parameter: the deadline
\* field, descending, when sort is deadline and the deadline field is not
\* empty; otherwise relevance when sort is relevance and the free text is not
\* empty after trimming; otherwise the date field, descending.
C17_OrderByResolution ==
    \A r \in Reqs :
        Returned(r, "build_explore_url") =>
            LET a == req[r].args
                date == IF a.fields.date = "" THEN "record_timestamp" ELSE a.fields.date
            IN /\ Count(req[r].ret, "order_by") = 1
               /\ \A v \in Values(req[r].ret, "order_by") :
                    Flat(v) = IF a.sort = "deadline" /\ a.fields.deadline # ""
                              THEN <<"-", a.fields.deadline>>
                              ELSE IF a.sort = "relevance" /\ strip(a.keywords) # <<>>
                              THEN <<"relevance">>
                              ELSE <<"-", date>>

C17_Witness ==
    \E r \in Reqs :
        /\ Returned(r, "build_explore_url")
        /\ req[r].args.sort = "relevance"
        /\ req[r].args.keywords = Blank
        /\ \E v \in Values(req[r].ret, "order_by") : Flat(v) = <<"-", "dateparution">>

\* int() of a string of decimal digits
RECURSIVE int(_)
int(s) ==
    IF s = <<>> THEN 0
    ELSE 10 * int(SubSeq(s, 1, Len(s) - 1))
            + (CHOOSE d \in 0..9 : DecimalDigits[d + 1] = s[Len(s)])

\* the number written in the one parameter named k
Number(params, k) == int(Flat(CHOOSE v \in Values(params, k) : TRUE))

\* C18: for page >= 1 and a page size in 1..100 both builders emit the start
\* position (page - 1) * page_size (offset for Explore, start for Records v1)
\* and the page size (limit for Explore, rows for Records v1), each once.
C18_SamePagination ==
    \A r \in Reqs :
        /\ Returned(r, "build_explore_url") =>
            /\ Count(req[r].ret, "offset") = 1
            /\ Count(req[r].ret, "limit") = 1
            /\ Number(req[r].ret, "offset") = (req[r].args.page - 1) * req[r].args.page_size
            /\ Number(req[r].ret, "limit") = req[r].args.page_size
        /\ Returned(r, "build_records_v1_url") =>
            /\ Count(req[r].ret, "start") = 1
            /\ Count(req[r].ret, "rows") = 1
            /\ Number(req[r].ret, "start") = (req[r].args.page - 1) * req[r].args.page_size
            /\ Number(req[r].ret, "rows") = req[r].args.page_size

C18_Witness ==
    \E r \in Reqs :
        /\ Returned(r, "build_records_v1_url")
        /\ req[r].args.page = 3
        /\ req[r].args.page_size = 20
        /\ \E v \in Values(req[r].ret, "start") : Flat(v) = <<"4", "0">>
        /\ \E v \in Values(req[r].ret, "rows") : Flat(v) = <<"2", "0">>

\* string(field) LIKE '%code%', the quotes of code doubled
Contains(field, code) ==
    Lit("string(") \o Lit(field) \o Lit(") LIKE '%") \o User(replace_quote(code))
        \o Lit("%'")

\* one contains clause per entry, joined by OR, in one pair of parentheses
OrGroup(field, entries) ==
    Lit("(") \o join(Lit(" OR "), [i \in 1..Len(entries) |-> Contains(field, entries[i])])
        \o Lit(")")

\* the text w starts with the conjunct c
FirstConjunct(w, c) ==
    /\ Len(w) >= Len(c)
    /\ SubSeq(w, 1, Len(c)) = c
    /\ Len(w) > Len(c) => w[Len(c) + 1] = Lit(" AND ")[1]

CpvField(a) == IF a.fields.cpv = "" THEN "cpv" ELSE a.fields.cpv

CanonicalHost(base) ==
    \E i \in 1..Len(base) :
        /\ base[i] = "boamp.fr"
        /\ i > 1 /\ base[1] = "https://"
        /\ \A j \in (i + 1)..Len(base) : base[j] = "/"

RecordFallback(a) ==
    LET base == rstrip_slash(a.base)
    IN IF CanonicalHost(a.base) /\ a.ref # <<>>
       THEN base \o <<"/", "avis/detail/">> \o a.ref
       ELSE IF a.record_id = <<>> THEN base
       ELSE base \o <<"/", "explore/dataset/", a.dataset_id, "/", "record/?id=">>
                \o quote_plus(a.record_id)

\* the explicit URL of the record, resolved against the portal, is the portal
\* root (with or without its final "/") or holds the generic landing path
ResolvesToRootOrLanding(a) ==
    LET base == rstrip_slash(a.base)
        href == urljoin(base \o <<"/">>, a.raw_url)
    IN rstrip_slash(href) = base \/ has_landing_page(href)

\* C21: an explicit detail URL that resolves to the portal root or to the
\* generic landing path is never returned by _normalize_record_url: the value
\* returned is {base}/avis/detail/{reference} when the host is the
\* notice-detail host and a reference exists, and the dataset record URL
\* otherwise.
C21_RootOrLandingDiscarded ==
    \A r \in Reqs :
        (/\ Returned(r, "_normalize_record_url")
         /\ req[r].args.raw_url # <<>>
         /\ ResolvesToRootOrLanding(req[r].args)) =>
            req[r].ret = RecordFallback(req[r].args)

\* C22: the debug URL of every tuple perform_search returns is the URL of the
\* dialect execution that produced its records: the URL of the other dialect
\* when the fallback execution succeeded, the URL of the preferred dialect
\* when the first execution succeeded, and on a cache hit the URL stored with
\* the entry.
C22_DebugUrlOfProducingExecution ==
    \A r \in Reqs :
        /\ (req[r].pc = "done" /\ req[r].outcome = "returned") =>
            LET n == Len(Execs(r))
                d == IF n = 2 THEN Other(Preferred) ELSE Preferred
            IN /\ n \in {1, 2}
               /\ Execs(r)[n].type = "ok"
               /\ Execs(r)[n].dialect = d
               /\ req[r].result.url.api = d
               /\ req[r].result.url = query_url(d, req[r].filter, req[r].fields)
        /\ (req[r].pc = "done" /\ req[r].outcome = "hit") =>
            /\ Key(r) \in DOMAIN _RESULTS_CACHE
            /\ req[r].result.url = _RESULTS_CACHE[Key(r)].value.url

C22_Witness ==
    \E r \in Reqs :
        /\ req[r].pc = "done"
        /\ req[r].outcome = "returned"
        /\ ~PREFER_EXPLORE
        /\ Len(Execs(r)) = 2
        /\ req[r].result.url.api = "explore"

\* C23: when perform_search executes the Explore dialect, the sort mode the
\* caller gave is the one the Explore query is built with.
C23_CallerSortBuildsQuery ==
    \A r \in Reqs :
        (/\ req[r].pc = "done"
         /\ req[r].outcome = "returned"
         /\ req[r].result.url.api = "explore") =>
            req[r].result.url.sort = req[r].filter.sort

\* a network call of the request failed: the schema fetch or a dialect execution
FetchFailed(r) ==
    \/ req[r].fs = "failed"
    \/ \E i \in 1..Len(Execs(r)) : Execs(r)[i].type # "ok"

\* C25: GET /search shows the error banner only when data fetching raised an
\* exception: a request none of whose network calls failed is rendered with
\* its records and without the banner.
C25_BannerOnlyOnFetchFailure ==
    \A r \in Reqs :
        (req[r].pc = "done" /\ req[r].outcome = "banner") => FetchFailed(r)

\* the parts of a request that the Records dialect has no parameter for
FrameFields == {"date_from", "date_to", "sort", "nature_in", "cpv_prefix"}

\* two cache keys of requests that differ in nothing but the frame fields
DifferOnlyInFrame(k1, k2) ==
    /\ k1 # k2
    /\ \A x \in (DOMAIN k1) \ FrameFields : k1[x] = k2[x]

\* C26: two requests that differ only in date_from, date_to, sort, nature_in
\* and cpv_prefix issue the same Records query, though their results are
\* cached under different keys.
C26_RecordsQueryIgnoresFrame ==
    \A k1 \in DOMAIN _RESULTS_CACHE, k2 \in DOMAIN _RESULTS_CACHE :
        (/\ DifferOnlyInFrame(k1, k2)
         /\ _RESULTS_CACHE[k1].value.url.api = "records_v1"
         /\ _RESULTS_CACHE[k2].value.url.api = "records_v1") =>
            _RESULTS_CACHE[k1].value.url = _RESULTS_CACHE[k2].value.url

C26_Witness ==
    \E k1 \in DOMAIN _RESULTS_CACHE, k2 \in DOMAIN _RESULTS_CACHE :
        /\ DifferOnlyInFrame(k1, k2)
        /\ k1.date_from = None /\ k2.date_from = "2024-01-01"
        /\ k1.sort = "" /\ k2.sort = "relevance"
        /\ k1.cpv_prefix # k2.cpv_prefix /\ k1.nature_in # k2.nature_in
        /\ _RESULTS_CACHE[k1].value.url.api = "records_v1"
        /\ _RESULTS_CACHE[k2].value.url = _RESULTS_CACHE[k1].value.url

\* C29: a schema refresh asked with refreshSchema=1 whose fetch fails leaves
\* the cached snapshot and its timestamp as they were before the request: a
\* snapshot in the cache still carries the time of its fetch, so that it is
\* served while it is fresh.
C29_FailedRefreshKeepsCache ==
    \A r \in Reqs :
        (/\ req[r].pc \in {"sp_search", "done"}
         /\ req[r].fs = "failed"
         /\ req[r].outcome \in {"none", "banner"}
         /\ Truthy(_SCHEMA_CACHE.value)) =>
            _SCHEMA_CACHE.ts = StartTime

\* the cache without the entry under key
Without(cache, key) == [k \in (DOMAIN cache) \ {key} |-> cache[k]]

\* C27: a perform_search call that ends in failure leaves the result cache
\* as it was, apart from the removal of the expired entry under its own key:
\* a step of a call that does not return a fetched tuple (failed outcomes are
\* not stored) changes the cache only by removing, from under the call's key,
\* an entry that is past its TTL.
C27_FailureLeavesCache ==
    [][\A r \in Reqs :
        (/\ req[r].pc \notin {"idle", "done"}
         /\ req'[r] # req[r]
         /\ req'[r].outcome # "returned") =>
            \/ _RESULTS_CACHE' = _RESULTS_CACHE
            \/ /\ req[r].pc = "cache_pop"
               /\ Key(r) \in DOMAIN _RESULTS_CACHE
               /\ now - _RESULTS_CACHE[Key(r)].ts > RESULTS_CACHE_TTL_SECONDS
               /\ _RESULTS_CACHE' = Without(_RESULTS_CACHE, Key(r))
      ]_vars

\* the exception classes the except clauses of perform_search name
\* (CertVerifyFailed is a URLError)
Caught == {"HTTPError", "URLError", "CertVerifyFailed", "JSONDecodeError"}

C30_HitAtMostTtlOld ==
    \A r \in Reqs :
        (req[r].pc = "done" /\ req[r].outcome = "hit") =>
            /\ Key(r) \in DOMAIN _RESULTS_CACHE
            /\ req[r].result = _RESULTS_CACHE[Key(r)].value
            /\ req[r].age = now - _RESULTS_CACHE[Key(r)].ts
            /\ 0 <= req[r].age
            /\ req[r].age <= RESULTS_CACHE_TTL_SECONDS

C30_Witness ==
    \E r \in Reqs :
        /\ req[r].pc = "done"
        /\ req[r].outcome = "hit"
        /\ req[r].age = RESULTS_CACHE_TTL_SECONDS

\* the order of the positions of a perform_search call
Stage(pc) ==
    CASE pc = "idle" -> 0
      [] pc = "fs_check" -> 1
      [] pc = "fs_net" -> 2
      [] pc = "fs_ts" -> 3
      [] pc = "cache_get" -> 4
      [] pc = "cache_pop" -> 5
      [] pc = "exec1" -> 6
      [] pc = "exec2" -> 7
      [] pc = "done" -> 8

\* C24: every perform_search call reaches a terminal state (it returns or
\* raises), given that each network call returns or times out; it only moves
\* forward through schema resolution, cache check, execution of the preferred
\* dialect and execution of the other dialect, and the second execution
\* starts only after the first has ended.
C24_CallTerminates ==
    /\ [][\A r \in ProgressThreads :
            req'[r].pc # req[r].pc =>
                \/ Stage(req'[r].pc) > Stage(req[r].pc)
                \/ req[r].pc = "done" /\ req'[r].pc = "idle"]_vars
    /\ [](\A r \in ProgressThreads :
            /\ Len(Execs(r)) <= 2
            /\ req[r].pc = "exec1" => Len(Execs(r)) = 0
            /\ req[r].pc = "exec2" =>
                Len(Execs(r)) = 1 /\ Execs(r)[1].type # "ok")
    /\ \A r \in ProgressThreads :
            (req[r].pc \notin {"idle", "done"}) ~> (req[r].pc = "done")

C24_Witness ==
    \E r \in ProgressThreads :
        /\ req[r].pc = "done"
        /\ req[r].outcome = "raised"
        /\ req[r].age > RESULTS_CACHE_TTL_SECONDS
        /\ Len(Execs(r)) = 2

====
